---- MODULE Spec2Model ----
(***************************************************************************)
(* Model of the remote DuckDB query path of scratchdata                    *)
(* (pkg/destinations/ssh/ssh.go): SSHServer.QueryJSON, openSSHConnection,  *)
(* setupDuckDB and queryDuckDB, together with the remote host they drive.  *)
(*                                                                         *)
(* Every call into the ssh / sftp libraries is one action whose outcome    *)
(* (success or failure) is chosen by the environment.  Strings are         *)
(* sequences of tokens, so the generated SQL script can be taken apart     *)
(* again.                                                                  *)
(*                                                                         *)
(* Storage.Upload and Storage.Download of pkg/filestore/s3/s3.go are       *)
(* modelled next to it, with a specification of their own (SpecS3).        *)
(***************************************************************************)
EXTENDS Naturals, Sequences, FiniteSets, TLC

VARIABLES
    req,        \* req[r]: the call frame of caller r's QueryJSON call
    host,       \* the remote host: working directory, files (absent, plain
                \* or executable) and the requests whose upload has the
                \* engine file open, truncated and not yet written out
    prevSetup,  \* history: what the last setupDuckDB call did, recorded
                \* when its QueryJSON has moved on from it (into
                \* queryDuckDB, or by returning and being called again)
    storage     \* the call frame of a Storage.Upload or Storage.Download
                \* call (pkg/filestore/s3/s3.go), its reader, and the
                \* bucket it talks to

vars == <<req, host, prevSetup, storage>>

----------------------------------------------------------------------------
(* Bounds *)

MaxQueryLen == 2    \* words in a user query
MaxEntries  == 2    \* entries in the remote directory listing
MaxOut      == 2    \* chunks the remote engine writes per run
MaxBody     == 2    \* bytes of the reader handed to Storage.Upload

----------------------------------------------------------------------------
(* Inputs *)

\* Requests may hold a QueryJSON call frame; Callers are those that call.
Requests == {1, 2}
Callers  == {1}

\* SSHServer.Directory
Directory == "/data"

\* Words a user query is made of; ";" is the statement terminator.
QueryWords == {"SELECT 1", ";"}

RECURSIVE SeqsUpTo(_, _)
SeqsUpTo(S, n) ==
    IF n = 0 THEN {<<>>}
    ELSE LET shorter == SeqsUpTo(S, n - 1)
         IN  shorter \cup {Append(s, x) : s \in shorter, x \in S}

Queries == SeqsUpTo(QueryWords, MaxQueryLen)

\* Names of entries of the remote directory, and the listings ReadDir can
\* return: sequences of os.FileInfo with distinct names.
EntryNames == {"events", "users", "logs"}
FileInfo   == [name : EntryNames, isDir : BOOLEAN]
Listings   ==
    {l \in SeqsUpTo(FileInfo, MaxEntries) :
        \A i, j \in 1..Len(l) : i # j => l[i].name # l[j].name}

\* Remote paths.  Commands and sftp both run in the login directory, so
\* "./duckdb" (lines 55, 122) and the upload target "duckdb" (line 65) and
\* "chmod 755 duckdb" (line 70) all resolve to HomeBin.
HomeBin == "~/duckdb"
DirBin  == "/data/duckdb"
Paths   == {HomeBin, DirBin}

\* Faulty variant of UploadPath: the upload goes into s.Directory.
UploadPathInDirectory == DirBin

ProbePath  == HomeBin
UploadPath == HomeBin
ChmodPath  == HomeBin
EnginePath == HomeBin

----------------------------------------------------------------------------
(* Pure helpers of queryDuckDB *)

\* util.TrimQuery: strips the statement terminators from the user query.
TrimQuery(query) == SelectSeq(query, LAMBDA w : w # ";")

\* Faulty variant of QueryArg: the raw query is handed on.
QueryArgRaw(query) == query

\* The argument QueryJSON hands to queryDuckDB.
QueryArg(query) == TrimQuery(query)

\* Faulty variant of DirNames: the IsDir test is missing.
RECURSIVE DirNamesAll(_)
DirNamesAll(files) ==
    IF files = <<>> THEN <<>>
    ELSE <<Head(files).name>> \o DirNamesAll(Tail(files))

\* The loop that keeps the names of the entries that are directories.
RECURSIVE DirNames(_)
DirNames(files) ==
    IF files = <<>> THEN <<>>
    ELSE (IF Head(files).isDir THEN <<Head(files).name>> ELSE <<>>)
         \o DirNames(Tail(files))

Prelude == <<"INSTALL 'parquet'", ";", " LOAD 'parquet'", ";", " ">>

ReadParquetTail ==
    "/*.parquet', filename=true,file_row_number=true,union_by_name=true)) "

\* fmt.Sprintf of one relation clause.
Clause(table) ==
    << "\nWITH ", "\"", table, "\"",
       " as (select * from read_parquet('", Directory, "/", table,
       ReadParquetTail >>

\* Faulty variant of Relations: the tables are taken last to first.
RECURSIVE RelationsReversed(_, _)
RelationsReversed(tables, i) ==
    IF i > Len(tables) THEN <<>>
    ELSE (IF i > 1 THEN <<",">> ELSE <<>>)
         \o Clause(tables[Len(tables) - i + 1])
         \o RelationsReversed(tables, i + 1)

\* The loop over tables, from index i on.
RECURSIVE Relations(_, _)
Relations(tables, i) ==
    IF i > Len(tables) THEN <<>>
    ELSE (IF i > 1 THEN <<",">> ELSE <<>>)
         \o Clause(tables[i])
         \o Relations(tables, i + 1)

Wrapper(query) == <<" SELECT * FROM (">> \o query \o <<") ">>

\* Faulty variant of BuildSQL: WITH is written once, before the loop,
\* whether or not there is a table.
BuildSQLWithOnce(tables, query) ==
    Prelude \o <<"\nWITH ">> \o Relations(tables, 1) \o Wrapper(query)

\* The script: setup statements, relation clauses, wrapped query.
BuildSQL(tables, query) ==
    Prelude \o Relations(tables, 1) \o Wrapper(query)

----------------------------------------------------------------------------
(* State *)

NoSetup == [ran |-> FALSE, uploads |-> 0, installed |-> FALSE]

Frame0 ==
    [ pc        |-> "idle",
      query     |-> <<>>,     \* QueryJSON's query argument
      sanitized |-> <<>>,     \* queryDuckDB's query argument
      files     |-> <<>>,     \* the listing ReadDir returned
      tables    |-> <<>>,
      sql       |-> <<>>,
      err       |-> "nil",    \* QueryJSON's result once pc = "done"
      log       |-> <<>>,     \* history: the library calls made, in order
      client    |-> "none",   \* the *gossh.Client
      sftp      |-> 0,        \* sftp handles opened and not closed
      se        |-> "none",   \* the *ssh.Session
      stdin     |-> "none",   \* the session's stdin pipe
      wired     |-> FALSE,    \* se.Stdout and se.Stderr are the writer
      proc      |-> "none",   \* the remote engine subprocess
      nOut      |-> 0,        \* chunks the subprocess has written
      stdoutCh  |-> <<>>,     \* chunks in flight on the channel's stdout
      stderrCh  |-> <<>>,     \* chunks in flight on the channel's stderr
      sink      |-> <<>> ]    \* what the caller's writer has received

\* Errors.  A backend error is an awserr.Error with a code, or some other
\* error; filestore.ErrNotFound is the package's sentinel.  A returned error
\* is what fmt.Errorf built: a text and the error its %w verb wraps.
AwsErr(code) == [aws |-> TRUE,  code |-> code]
PlainErr(id) == [aws |-> FALSE, code |-> id]

NoErr       == PlainErr("nil")
ErrNotFound == PlainErr("filestore.ErrNotFound")
BackendErrs ==
    {AwsErr(c) : c \in {"NoSuchBucket", "NoSuchKey", "AccessDenied"}}
        \cup {PlainErr("timeout")}
SeekErr     == PlainErr("seek")

Errorf(text, cause) == [text |-> text, cause |-> cause]
Nil == Errorf("nil", NoErr)

\* errors.Is(err, target) for the one-level chains built here.
Is(err, target) == err # Nil /\ err.cause = target

NoObject == [from |-> 0, to |-> 0, present |-> FALSE]

Storage0 ==
    [ pc     |-> "idle",
      size   |-> 0,         \* length of the reader r
      pos    |-> 0,         \* r's current offset
      pos0   |-> 0,         \* history: r's offset when Upload was called
      rPos   |-> 0,         \* Upload's local rPos
      calls  |-> <<>>,      \* history: the backend and reader calls made
      err    |-> Nil,       \* the result once pc = "done"
      bucket |-> FALSE,     \* the bucket exists
      object |-> NoObject ] \* the object at s.bucket/path: bytes from..to
                            \* of the reader that was put

Init ==
    /\ req = [r \in Requests |-> Frame0]
    /\ host \in [dir : BOOLEAN,
                 files : {[p \in Paths |-> IF p = HomeBin THEN b ELSE "absent"] :
                            b \in {"absent", "plain", "exec"}},
                 writing : {{}}]
    /\ prevSetup = NoSetup
    /\ storage = Storage0

\* A remote file can be run: it is executable and no upload has it open.
Runnable(p) == host.files[p] = "exec" /\ host.writing = {}

----------------------------------------------------------------------------
(* History helpers *)

Logged(f, call, ok) == Append(f.log, [call |-> call, ok |-> ok])

Made(f, call)      == \E i \in 1..Len(f.log) : f.log[i].call = call
Succeeded(f, call) == \E i \in 1..Len(f.log) : f.log[i].call = call /\ f.log[i].ok
Failed(f, call)    == \E i \in 1..Len(f.log) : f.log[i].call = call /\ ~f.log[i].ok

\* What one finished QueryJSON call did in setupDuckDB.
SetupSummary(f) ==
    [ ran       |-> TRUE,
      uploads   |-> IF Succeeded(f, "Upload") THEN 1 ELSE 0,
      installed |-> Succeeded(f, "Upload") /\ Succeeded(f, "chmod") ]

----------------------------------------------------------------------------
(* QueryJSON *)

\* A return of QueryJSON with error e from frame f: the deferred se.Close()
\* runs if it was registered; nothing else is released.  Closing the session
\* drops what is still in flight on its channel.  The locals go with the
\* frame; the result, the writer and whatever was left open stay.
Ret(f, e) ==
    [f EXCEPT !.pc = "done", !.err = e,
              !.se = IF f.se = "open" THEN "closed" ELSE f.se,
              !.stdoutCh = <<>>, !.stderrCh = <<>>,
              !.query = <<>>, !.sanitized = <<>>, !.files = <<>>,
              !.tables = <<>>, !.sql = <<>>]

\* The caller invokes QueryJSON(query, writer) with a fresh writer.
Call(r) ==
    /\ req[r].pc \in {"idle", "done"}
    /\ \E q \in Queries :
         req' = [req EXCEPT ![r] = [Frame0 EXCEPT !.pc = "parseKey", !.query = q]]
    /\ prevSetup' = IF Made(req[r], "mkdir") /\ ~Made(req[r], "ReadDir")
                    THEN SetupSummary(req[r])
                    ELSE prevSetup
    /\ UNCHANGED <<host, storage>>

\* openSSHConnection: ssh.ParsePrivateKey
ParsePrivateKey(r) ==
    /\ req[r].pc = "parseKey"
    /\ \E ok \in BOOLEAN :
         LET f == [req[r] EXCEPT !.log = Logged(req[r], "ParsePrivateKey", ok)]
         IN  req' = [req EXCEPT ![r] =
                        IF ok THEN [f EXCEPT !.pc = "dial"]
                        ELSE Ret(f, "ParsePrivateKey")]
    /\ UNCHANGED <<host, prevSetup, storage>>

\* openSSHConnection: gossh.Dial
Dial(r) ==
    /\ req[r].pc = "dial"
    /\ \E ok \in BOOLEAN :
         LET f == [req[r] EXCEPT !.log = Logged(req[r], "Dial", ok)]
         IN  req' = [req EXCEPT ![r] =
                        IF ok THEN [f EXCEPT !.pc = "mkdir", !.client = "open"]
                        ELSE Ret(f, "Dial")]
    /\ UNCHANGED <<host, prevSetup, storage>>

----------------------------------------------------------------------------
(* setupDuckDB *)

\* Faulty variant of Mkdir: the error is not checked.
MkdirIgnoreErr(r) ==
    /\ req[r].pc = "mkdir"
    /\ \E ok \in BOOLEAN :
         LET f == [req[r] EXCEPT !.log = Logged(req[r], "mkdir", ok)]
         IN  /\ req' = [req EXCEPT ![r] = [f EXCEPT !.pc = "probe"]]
             /\ host' = IF ok THEN [host EXCEPT !.dir = TRUE] ELSE host
    /\ UNCHANGED <<prevSetup, storage>>

\* mkdir -p s.Directory
Mkdir(r) ==
    /\ req[r].pc = "mkdir"
    /\ \E ok \in BOOLEAN :
         LET f == [req[r] EXCEPT !.log = Logged(req[r], "mkdir", ok)]
         IN  /\ req' = [req EXCEPT ![r] =
                           IF ok THEN [f EXCEPT !.pc = "probe"]
                           ELSE Ret(f, "mkdir")]
             /\ host' = IF ok THEN [host EXCEPT !.dir = TRUE] ELSE host
    /\ UNCHANGED <<prevSetup, storage>>

\* Faulty variant of Probe: the install follows whatever the probe said.
ProbeAlwaysInstall(r) ==
    /\ req[r].pc = "probe"
    /\ \E ok \in BOOLEAN :
         /\ ok => Runnable(ProbePath)
         /\ req' = [req EXCEPT ![r] =
                      [@ EXCEPT !.log = Logged(req[r], "probe", ok),
                                !.pc = "upload"]]
    /\ UNCHANGED <<host, prevSetup, storage>>

\* Faulty variant of Probe: the probe's error is returned.
ProbeReturnErr(r) ==
    /\ req[r].pc = "probe"
    /\ \E ok \in BOOLEAN :
         /\ ok => Runnable(ProbePath)
         /\ LET f == [req[r] EXCEPT !.log = Logged(req[r], "probe", ok)]
            IN  req' = [req EXCEPT ![r] =
                          IF ok THEN [f EXCEPT !.pc = "readDir"]
                          ELSE Ret(f, "probe")]
    /\ UNCHANGED <<host, prevSetup, storage>>

\* The no-op run of ./duckdb.  It cannot succeed unless an executable file
\* is there; it can fail whatever is there (transport, architecture).  Its
\* error only selects the branch; setupDuckDB does not return it.
Probe(r) ==
    /\ req[r].pc = "probe"
    /\ \E ok \in BOOLEAN :
         /\ ok => Runnable(ProbePath)
         /\ req' = [req EXCEPT ![r] =
                      [@ EXCEPT !.log = Logged(req[r], "probe", ok),
                                !.pc = IF ok THEN "readDir" ELSE "upload"]]
    /\ UNCHANGED <<host, prevSetup, storage>>

\* Faulty variant of Upload: the error is not checked.
UploadIgnoreErr(r) ==
    /\ req[r].pc = "upload"
    /\ \E ok, opened \in BOOLEAN :
         /\ ok => opened
         /\ LET f == [req[r] EXCEPT !.log = Logged(req[r], "Upload", ok),
                                    !.sftp = @ + (IF opened THEN 1 ELSE 0)]
            IN  /\ req' = [req EXCEPT ![r] = [f EXCEPT !.pc = "chmod"]]
                /\ host' = IF ok /\ host.files[UploadPath] = "absent"
                           THEN [host EXCEPT !.files[UploadPath] = "plain"]
                           ELSE host
    /\ UNCHANGED <<prevSetup, storage>>

\* sshClient.Sftp() and sftp.Upload(local, "duckdb").  The handle is opened
\* by its first use and is never closed; an existing remote file keeps its
\* mode when it is overwritten.
Upload(r) ==
    /\ req[r].pc = "upload"
    /\ \E ok, opened \in BOOLEAN :
         /\ ok => opened
         /\ LET f == [req[r] EXCEPT !.log = Logged(req[r], "Upload", ok),
                                    !.sftp = @ + (IF opened THEN 1 ELSE 0)]
            IN  /\ req' = [req EXCEPT ![r] =
                              IF ok THEN [f EXCEPT !.pc = "chmod"]
                              ELSE Ret(f, "Upload")]
                /\ host' = IF ok /\ host.files[UploadPath] = "absent"
                           THEN [host EXCEPT !.files[UploadPath] = "plain"]
                           ELSE host
    /\ UNCHANGED <<prevSetup, storage>>

\* chmod 755 duckdb
Chmod(r) ==
    /\ req[r].pc = "chmod"
    /\ \E ok \in BOOLEAN :
         /\ ok => host.files[ChmodPath] # "absent"
         /\ LET f == [req[r] EXCEPT !.log = Logged(req[r], "chmod", ok)]
            IN  /\ req' = [req EXCEPT ![r] =
                              IF ok THEN [f EXCEPT !.pc = "readDir"]
                              ELSE Ret(f, "chmod")]
                /\ host' = IF ok THEN [host EXCEPT !.files[ChmodPath] = "exec"]
                           ELSE host
    /\ UNCHANGED <<prevSetup, storage>>

----------------------------------------------------------------------------
(* queryDuckDB *)

\* Faulty variant of ReadDir: a failed listing is taken as an empty one.
ReadDirIgnoreErr(r) ==
    /\ req[r].pc = "readDir"
    /\ \E ok, opened \in BOOLEAN, l \in Listings :
         /\ ok => opened
         /\ ~ok => l = <<>>
         /\ LET f == [req[r] EXCEPT
                        !.sanitized = QueryArg(req[r].query),
                        !.log = Logged(req[r], "ReadDir", ok),
                        !.sftp = @ + (IF opened THEN 1 ELSE 0)]
            IN  req' = [req EXCEPT ![r] =
                          [f EXCEPT !.pc = "rewrite", !.files = l,
                                    !.tables = DirNames(l)]]
    /\ prevSetup' = SetupSummary(req[r])
    /\ UNCHANGED <<host, storage>>

\* QueryJSON sanitizes the query and calls queryDuckDB, which opens a second
\* sftp handle and lists s.Directory; tables starts empty on every call and
\* gets the names of the entries that are directories.
ReadDir(r) ==
    /\ req[r].pc = "readDir"
    /\ \E ok, opened \in BOOLEAN, l \in Listings :
         /\ ok => opened
         /\ ~ok => l = <<>>
         /\ LET f == [req[r] EXCEPT
                        !.sanitized = QueryArg(req[r].query),
                        !.log = Logged(req[r], "ReadDir", ok),
                        !.sftp = @ + (IF opened THEN 1 ELSE 0)]
            IN  req' = [req EXCEPT ![r] =
                          IF ok THEN [f EXCEPT !.pc = "rewrite", !.files = l,
                                               !.tables = DirNames(l)]
                          ELSE Ret(f, "ReadDir")]
    /\ prevSetup' = SetupSummary(req[r])
    /\ UNCHANGED <<host, storage>>

\* Faulty variant of Rewrite: the trace of the script goes to the writer.
RewriteTraceToWriter(r) ==
    /\ req[r].pc = "rewrite"
    /\ req' = [req EXCEPT ![r] =
                 [@ EXCEPT !.log = Logged(req[r], "rewrite", TRUE),
                           !.sql = BuildSQL(req[r].tables, req[r].sanitized),
                           !.sink = Append(@, 0),
                           !.pc = "newSession"]]
    /\ UNCHANGED <<host, prevSetup, storage>>

\* The script is built from tables and the query; nothing here can fail.
Rewrite(r) ==
    /\ req[r].pc = "rewrite"
    /\ req' = [req EXCEPT ![r] =
                 [@ EXCEPT !.log = Logged(req[r], "rewrite", TRUE),
                           !.sql = BuildSQL(req[r].tables, req[r].sanitized),
                           !.pc = "newSession"]]
    /\ UNCHANGED <<host, prevSetup, storage>>

\* c.NewSession(), then defer se.Close()
NewSession(r) ==
    /\ req[r].pc = "newSession"
    /\ \E ok \in BOOLEAN :
         LET f == [req[r] EXCEPT !.log = Logged(req[r], "NewSession", ok)]
         IN  req' = [req EXCEPT ![r] =
                        IF ok THEN [f EXCEPT !.pc = "stdinPipe", !.se = "open"]
                        ELSE Ret(f, "NewSession")]
    /\ UNCHANGED <<host, prevSetup, storage>>

\* se.StdinPipe()
StdinPipe(r) ==
    /\ req[r].pc = "stdinPipe"
    /\ \E ok \in BOOLEAN :
         LET f == [req[r] EXCEPT !.log = Logged(req[r], "StdinPipe", ok)]
         IN  req' = [req EXCEPT ![r] =
                        IF ok THEN [f EXCEPT !.pc = "start", !.stdin = "open"]
                        ELSE Ret(f, "StdinPipe")]
    /\ UNCHANGED <<host, prevSetup, storage>>

\* se.Stdout = writer; se.Stderr = writer; se.Start("./duckdb --json").
\* Start succeeds when the remote shell accepts the request, whether or not
\* the binary can run.
Start(r) ==
    /\ req[r].pc = "start"
    /\ \E ok \in BOOLEAN :
         LET f == [req[r] EXCEPT !.log = Logged(req[r], "Start", ok),
                                 !.wired = TRUE]
         IN  req' = [req EXCEPT ![r] =
                        IF ok THEN [f EXCEPT !.pc = "write", !.proc = "running"]
                        ELSE Ret(f, "Start")]
    /\ UNCHANGED <<host, prevSetup, storage>>

\* Faulty variant of WriteString: the error is not checked.
WriteStringIgnoreErr(r) ==
    /\ req[r].pc = "write"
    /\ \E ok \in BOOLEAN :
         LET f == [req[r] EXCEPT !.log = Logged(req[r], "WriteString", ok)]
         IN  req' = [req EXCEPT ![r] =
                        [f EXCEPT !.pc = "closePipe",
                                  !.stdin = IF ok THEN "written" ELSE @]]
    /\ UNCHANGED <<host, prevSetup, storage>>

\* io.WriteString(p, sql)
WriteString(r) ==
    /\ req[r].pc = "write"
    /\ \E ok \in BOOLEAN :
         LET f == [req[r] EXCEPT !.log = Logged(req[r], "WriteString", ok)]
         IN  req' = [req EXCEPT ![r] =
                        IF ok THEN [f EXCEPT !.pc = "closePipe", !.stdin = "written"]
                        ELSE Ret(f, "WriteString")]
    /\ UNCHANGED <<host, prevSetup, storage>>

\* p.Close()
ClosePipe(r) ==
    /\ req[r].pc = "closePipe"
    /\ \E ok \in BOOLEAN :
         LET f == [req[r] EXCEPT !.log = Logged(req[r], "Close", ok)]
         IN  req' = [req EXCEPT ![r] =
                        IF ok THEN [f EXCEPT !.pc = "wait", !.stdin = "closed"]
                        ELSE Ret(f, "Close")]
    /\ UNCHANGED <<host, prevSetup, storage>>

\* Faulty variant of WaitErr: the error of se.Wait() is dropped.
WaitErrIgnored(outcome) == "nil"

\* The error se.Wait() returns: nil for exit status 0, *ssh.ExitError for a
\* non-zero status, *ssh.ExitMissingError when the channel went away.

WaitErr(outcome) ==
    CASE outcome = "exit0" -> "nil"
      [] outcome = "exit1" -> "ExitError"
      [] OTHER             -> "ExitMissingError"

\* se.Wait() returns once the subprocess has exited and both copies to the
\* writer have finished, or once the connection is lost.
Wait(r) ==
    /\ req[r].pc = "wait"
    /\ \E outcome \in {"exit0", "exit1", "lost"} :
         /\ outcome # "lost" =>
               /\ req[r].proc = outcome
               /\ req[r].stdoutCh = <<>>
               /\ req[r].stderrCh = <<>>
         /\ req' = [req EXCEPT ![r] =
                      Ret([@ EXCEPT !.log = Logged(req[r], "Wait", outcome = "exit0")],
                          WaitErr(outcome))]
    /\ UNCHANGED <<host, prevSetup, storage>>

----------------------------------------------------------------------------
(* The remote engine subprocess and the session's copy goroutines *)

\* The subprocess writes its next chunk to stdout or to stderr.
EngineWrite(r) ==
    /\ req[r].proc = "running"
    /\ req[r].se = "open"
    /\ req[r].nOut < MaxOut
    /\ \/ req' = [req EXCEPT ![r] =
                    [@ EXCEPT !.nOut = @ + 1,
                              !.stdoutCh = Append(@, req[r].nOut + 1)]]
       \/ req' = [req EXCEPT ![r] =
                    [@ EXCEPT !.nOut = @ + 1,
                              !.stderrCh = Append(@, req[r].nOut + 1)]]
    /\ UNCHANGED <<host, prevSetup, storage>>

\* The subprocess exits: with status 0 only after it read its input to the
\* end and only if the binary can run; with a non-zero status at any time.
EngineExit(r) ==
    /\ req[r].proc = "running"
    /\ req[r].se = "open"
    /\ \E status \in {"exit0", "exit1"} :
         /\ status = "exit0" =>
               /\ req[r].stdin = "closed"
               /\ Runnable(EnginePath)
         /\ req' = [req EXCEPT ![r] = [@ EXCEPT !.proc = status]]
    /\ UNCHANGED <<host, prevSetup, storage>>

\* io.Copy(se.Stdout, channel stdout): one chunk reaches the writer.
CopyStdout(r) ==
    /\ req[r].se = "open"
    /\ req[r].stdoutCh # <<>>
    /\ req' = [req EXCEPT ![r] =
                 [@ EXCEPT !.sink = Append(@, Head(req[r].stdoutCh)),
                           !.stdoutCh = Tail(@)]]
    /\ UNCHANGED <<host, prevSetup, storage>>

\* io.Copy(se.Stderr, channel stderr): one chunk reaches the writer.
CopyStderr(r) ==
    /\ req[r].se = "open"
    /\ req[r].stderrCh # <<>>
    /\ req' = [req EXCEPT ![r] =
                 [@ EXCEPT !.sink = Append(@, Head(req[r].stderrCh)),
                           !.stderrCh = Tail(@)]]
    /\ UNCHANGED <<host, prevSetup, storage>>

\* se.Stdout and se.Stderr are the same writer and each is fed by its own
\* goroutine with nothing to serialise them: with a chunk waiting on both
\* streams the two Write calls can overlap.  The writer then has one of the
\* two chunks only ("lost") or a mix of both, written here as chunk 0
\* ("torn"); the orderly outcomes are those of CopyStdout and CopyStderr.
Torn == 0

CopyRace(r) ==
    /\ req[r].se = "open"
    /\ req[r].stdoutCh # <<>>
    /\ req[r].stderrCh # <<>>
    /\ \E got \in {Head(req[r].stdoutCh), Head(req[r].stderrCh), Torn} :
         req' = [req EXCEPT ![r] =
                   [@ EXCEPT !.sink = Append(@, got),
                             !.stdoutCh = Tail(@),
                             !.stderrCh = Tail(@)]]
    /\ UNCHANGED <<host, prevSetup, storage>>

----------------------------------------------------------------------------
(* Specification: one caller, calling QueryJSON again and again *)

Next ==
    \E r \in Callers :
        \/ Call(r)
        \/ ParsePrivateKey(r)
        \/ Dial(r)
        \/ Mkdir(r)
        \/ Probe(r)
        \/ Upload(r)
        \/ Chmod(r)
        \/ ReadDir(r)
        \/ Rewrite(r)
        \/ NewSession(r)
        \/ StdinPipe(r)
        \/ Start(r)
        \/ WriteString(r)
        \/ ClosePipe(r)
        \/ Wait(r)
        \/ EngineWrite(r)
        \/ EngineExit(r)
        \/ CopyStdout(r)
        \/ CopyStderr(r)
        \/ CopyRace(r)

Spec == Init /\ [][Next]_vars

----------------------------------------------------------------------------
(* Specification: two callers, each calling QueryJSON once, concurrently,  *)
(* on the same SSHServer value and so on the same remote host.  Each call  *)
(* has its own frame; the remote files are what the calls have in common.  *)
(* Between two steps of one call the other call may take any number of     *)
(* steps, so the upload, which the sftp client does as open-and-truncate   *)
(* followed by the writes, is two steps here.  To keep the product of the  *)
(* two frames small the query is SELECT 1 and the directory has no entry.  *)

ConcQuery == <<"SELECT 1">>

ConcCall(r) ==
    /\ req[r].pc = "idle"
    /\ Call(r)
    /\ req'[r].query = ConcQuery

\* sshClient.Sftp() and the first half of sftp.Upload: the remote file is
\* created or truncated.  An existing file keeps its mode.
UploadOpen(r) ==
    /\ req[r].pc = "upload"
    /\ \E ok, opened \in BOOLEAN :
         /\ ok => opened
         /\ LET f == [req[r] EXCEPT !.sftp = @ + (IF opened THEN 1 ELSE 0)]
            IN  /\ req' = [req EXCEPT ![r] =
                              IF ok THEN [f EXCEPT !.pc = "uploading"]
                              ELSE Ret([f EXCEPT !.log = Logged(f, "Upload", FALSE)],
                                       "Upload")]
                /\ host' = IF ok
                           THEN [host EXCEPT
                                   !.writing = @ \cup {r},
                                   !.files[UploadPath] =
                                       IF @ = "absent" THEN "plain" ELSE @]
                           ELSE host
    /\ UNCHANGED <<prevSetup, storage>>

\* The second half of sftp.Upload: the content is written and the remote
\* file is closed.
UploadCopy(r) ==
    /\ req[r].pc = "uploading"
    /\ \E ok \in BOOLEAN :
         LET f == [req[r] EXCEPT !.log = Logged(req[r], "Upload", ok)]
         IN  req' = [req EXCEPT ![r] =
                        IF ok THEN [f EXCEPT !.pc = "chmod"]
                        ELSE Ret(f, "Upload")]
    /\ host' = [host EXCEPT !.writing = @ \ {r}]
    /\ UNCHANGED <<prevSetup, storage>>

ConcReadDir(r) ==
    /\ ReadDir(r)
    /\ req'[r].files = <<>>

NextConc ==
    \E r \in Requests :
        \/ ConcCall(r)
        \/ ParsePrivateKey(r)
        \/ Dial(r)
        \/ Mkdir(r)
        \/ Probe(r)
        \/ UploadOpen(r)
        \/ UploadCopy(r)
        \/ Chmod(r)
        \/ ConcReadDir(r)
        \/ Rewrite(r)
        \/ NewSession(r)
        \/ StdinPipe(r)
        \/ Start(r)
        \/ WriteString(r)
        \/ ClosePipe(r)
        \/ Wait(r)
        \/ EngineWrite(r)
        \/ EngineExit(r)
        \/ CopyStdout(r)
        \/ CopyStderr(r)
        \/ CopyRace(r)

SpecConc == Init /\ [][NextConc]_vars

----------------------------------------------------------------------------
(* Storage.Upload and Storage.Download (pkg/filestore/s3/s3.go) *)

SCalled(call, res, from) ==
    Append(storage.calls, [call |-> call, res |-> res, from |-> from])

SRet(e, calls) == [storage EXCEPT !.pc = "done", !.err = e, !.calls = calls]

\* What PutObjectWithContext can answer: success needs the bucket, and a
\* missing bucket is reported only when it is missing.
PutOutcomes ==
    (IF storage.bucket THEN {NoErr} ELSE {})
        \cup (BackendErrs \ (IF storage.bucket THEN {AwsErr("NoSuchBucket")} ELSE {}))

\* The caller invokes Upload(path, r) with a reader of some length at some
\* offset.
UploadCall ==
    /\ storage.pc \in {"idle", "done"}
    /\ \E size \in 0..MaxBody : \E pos \in 0..size :
         storage' = [Storage0 EXCEPT !.pc = "seekCur", !.size = size,
                                     !.pos = pos, !.pos0 = pos,
                                     !.bucket = storage.bucket,
                                     !.object = storage.object]
    /\ UNCHANGED <<req, host, prevSetup>>

\* rPos, err := r.Seek(0, io.SeekCurrent)
SeekCurrent ==
    /\ storage.pc = "seekCur"
    /\ \E ok \in BOOLEAN :
         LET calls == SCalled("SeekCurrent", IF ok THEN NoErr ELSE SeekErr,
                              storage.pos)
         IN  storage' =
               IF ok THEN [storage EXCEPT !.pc = "put1", !.rPos = storage.pos,
                                          !.calls = calls]
               ELSE SRet(Errorf("Cannnot get current file position", SeekErr),
                         calls)
    /\ UNCHANGED <<req, host, prevSetup>>

\* Faulty variant of PutObject1: every failure of the first put leads to
\* the creation of the bucket.
PutObject1RetryAny ==
    /\ storage.pc = "put1"
    /\ \E res \in PutOutcomes : \E read \in storage.pos..storage.size :
         /\ res = NoErr => read = storage.size
         /\ LET calls == SCalled("PutObject", res, storage.pos)
            IN  storage' =
                  IF res = NoErr
                  THEN [SRet(Nil, calls) EXCEPT
                          !.pos = read,
                          !.object = [from |-> storage.pos, to |-> storage.size,
                                      present |-> TRUE]]
                  ELSE [storage EXCEPT !.pc = "create", !.pos = read,
                                       !.calls = calls]
    /\ UNCHANGED <<req, host, prevSetup>>

\* The first s.client.PutObjectWithContext(s.ctx, input), Body: r.  The
\* request reads r from where it stands, to the end when it succeeds and
\* to anywhere when it fails.  Only "no such bucket" leads on.
PutObject1 ==
    /\ storage.pc = "put1"
    /\ \E res \in PutOutcomes : \E read \in storage.pos..storage.size :
         /\ res = NoErr => read = storage.size
         /\ LET calls == SCalled("PutObject", res, storage.pos)
            IN  storage' =
                  IF res = NoErr
                  THEN [SRet(Nil, calls) EXCEPT
                          !.pos = read,
                          !.object = [from |-> storage.pos, to |-> storage.size,
                                      present |-> TRUE]]
                  ELSE IF res.aws /\ res.code = "NoSuchBucket"
                  THEN [storage EXCEPT !.pc = "create", !.pos = read,
                                       !.calls = calls]
                  ELSE [SRet(Errorf("Storage.Upload: path", res), calls)
                          EXCEPT !.pos = read]
    /\ UNCHANGED <<req, host, prevSetup>>

\* s.client.CreateBucketWithContext
CreateBucket ==
    /\ storage.pc = "create"
    /\ \E res \in {NoErr, AwsErr("AccessDenied"), PlainErr("timeout")} :
         LET calls == SCalled("CreateBucket", res, storage.pos)
         IN  storage' =
               IF res = NoErr
               THEN [storage EXCEPT !.pc = "seekStart", !.bucket = TRUE,
                                    !.calls = calls]
               ELSE SRet(Errorf("Storage.Upload: path: Cannot create bucket", res),
                         calls)
    /\ UNCHANGED <<req, host, prevSetup>>

\* Faulty variant of SeekStart: the reader is left where the first put
\* left it.
SeekStartSkipped ==
    /\ storage.pc = "seekStart"
    /\ storage' = [storage EXCEPT !.pc = "put2",
                      !.calls = SCalled("SeekStart", NoErr, storage.pos)]
    /\ UNCHANGED <<req, host, prevSetup>>

\* r.Seek(rPos, io.SeekStart)
SeekStart ==
    /\ storage.pc = "seekStart"
    /\ \E ok \in BOOLEAN :
         LET calls == SCalled("SeekStart", IF ok THEN NoErr ELSE SeekErr,
                              storage.pos)
         IN  storage' =
               IF ok THEN [storage EXCEPT !.pc = "put2", !.pos = storage.rPos,
                                          !.calls = calls]
               ELSE SRet(Errorf("Cannnot set file position", SeekErr), calls)
    /\ UNCHANGED <<req, host, prevSetup>>

\* The second s.client.PutObjectWithContext(s.ctx, input): whatever it
\* answers, Upload returns.
PutObject2 ==
    /\ storage.pc = "put2"
    /\ \E res \in PutOutcomes : \E read \in storage.pos..storage.size :
         /\ res = NoErr => read = storage.size
         /\ LET calls == SCalled("PutObject", res, storage.pos)
            IN  storage' =
                  IF res = NoErr
                  THEN [SRet(Nil, calls) EXCEPT
                          !.pos = read,
                          !.object = [from |-> storage.pos, to |-> storage.size,
                                      present |-> TRUE]]
                  ELSE [SRet(Errorf("Storage.Upload: path", res), calls)
                          EXCEPT !.pos = read]
    /\ UNCHANGED <<req, host, prevSetup>>

\* The caller invokes Download(path, w).
DownloadCall ==
    /\ storage.pc \in {"idle", "done"}
    /\ storage' = [Storage0 EXCEPT !.pc = "download",
                                   !.bucket = storage.bucket,
                                   !.object = storage.object]
    /\ UNCHANGED <<req, host, prevSetup>>

\* Faulty variant of DownloadErr: the backend's error is always wrapped as
\* it is.
DownloadErrUnmapped(e) == Errorf("Storage.Download: path", e)

\* The error Download makes of the backend's error e.
DownloadErr(e) ==
    IF e.aws /\ e.code = "NoSuchKey"
    THEN Errorf("Storage.Upload: path", ErrNotFound)
    ELSE Errorf("Storage.Download: path", e)

\* What DownloadWithContext can answer: success needs the object, and a
\* missing key is reported only when the bucket has no such object.
GetOutcomes ==
    (IF storage.object.present THEN {NoErr} ELSE {})
        \cup (BackendErrs \ (IF storage.object.present THEN {AwsErr("NoSuchKey")}
                              ELSE {}))

\* s.downloader.DownloadWithContext and the mapping of its error.
Download ==
    /\ storage.pc = "download"
    /\ \E res \in GetOutcomes :
         storage' = SRet(IF res = NoErr THEN Nil ELSE DownloadErr(res),
                         SCalled("Download", res, 0))
    /\ UNCHANGED <<req, host, prevSetup>>

InitS3 ==
    /\ req = [r \in Requests |-> Frame0]
    /\ host = [dir |-> FALSE, files |-> [p \in Paths |-> "absent"],
               writing |-> {}]
    /\ prevSetup = NoSetup
    /\ storage \in {[Storage0 EXCEPT !.bucket = b] : b \in BOOLEAN}

NextS3 ==
    \/ UploadCall
    \/ SeekCurrent
    \/ PutObject1
    \/ CreateBucket
    \/ SeekStart
    \/ PutObject2
    \/ DownloadCall
    \/ Download

SpecS3 == InitS3 /\ [][NextS3]_vars

----------------------------------------------------------------------------
(* Vocabulary of the claims *)

Last(s) == s[Len(s)]

IsPrefix(s, t) == Len(s) <= Len(t) /\ SubSeq(t, 1, Len(s)) = s

IsSuffix(s, t) ==
    Len(s) <= Len(t) /\ SubSeq(t, Len(t) - Len(s) + 1, Len(t)) = s

Positions(s, tok) == {i \in 1..Len(s) : s[i] = tok}

Max(S) == CHOOSE x \in S : \A y \in S : y <= x
Min(S) == CHOOSE x \in S : \A y \in S : x <= y

\* The last statement of a script: what follows its last terminator.
FinalStatement(script) ==
    IF Positions(script, ";") = {} THEN script
    ELSE SubSeq(script, Max(Positions(script, ";")) + 1, Len(script))

NonBlank(s) == SelectSeq(s, LAMBDA t : t # " ")

\* Where the script declares a relation: a quoted name followed by the
\* opening of its read_parquet body.
DeclarationAt(script, i) ==
    /\ i + 3 <= Len(script)
    /\ script[i] = "\""
    /\ script[i + 2] = "\""
    /\ script[i + 3] = " as (select * from read_parquet('"

\* The names of the relations a script declares, in script order.
DeclaredRelations(script) ==
    LET at == SelectSeq([i \in 1..Len(script) |-> i],
                        LAMBDA i : DeclarationAt(script, i))
    IN  [k \in 1..Len(at) |-> script[at[k] + 1]]

Range(s) == {s[i] : i \in 1..Len(s)}

\* The directories of a listing, in listing order.
DirectoriesOf(listing) ==
    LET d == SelectSeq(listing, LAMBDA e : e.isDir)
    IN  [i \in 1..Len(d) |-> d[i].name]

\* Positions of a call frame where the rewritten script exists.
Rewritten ==
    {"newSession", "stdinPipe", "start", "write", "closePipe", "wait"}

\* The seven steps of Run, and the step each library call belongs to.
StepOf(call) ==
    CASE call \in {"ParsePrivateKey", "Dial"}            -> 1
      [] call \in {"mkdir", "probe", "Upload", "chmod"}  -> 2
      [] call = "ReadDir"                                -> 3
      [] call = "rewrite"                                -> 4
      [] call \in {"NewSession", "StdinPipe", "Start"}   -> 5
      [] call \in {"WriteString", "Close"}               -> 6
      [] call = "Wait"                                   -> 7

\* The place of each library call in the order of the source text.
RankOf(call) ==
    CASE call = "ParsePrivateKey" -> 1
      [] call = "Dial"            -> 2
      [] call = "mkdir"           -> 3
      [] call = "probe"           -> 4
      [] call = "Upload"          -> 5
      [] call = "chmod"           -> 6
      [] call = "ReadDir"         -> 7
      [] call = "rewrite"         -> 8
      [] call = "NewSession"      -> 9
      [] call = "StdinPipe"       -> 10
      [] call = "Start"           -> 11
      [] call = "WriteString"     -> 12
      [] call = "Close"           -> 13
      [] call = "Wait"            -> 14

\* A step has failed when one of its calls failed, except the probe, whose
\* failure setupDuckDB handles by installing.
StepFailure(e) == ~e.ok /\ e.call # "probe"

\* setupDuckDB has just returned in the call of frame f: to QueryJSON,
\* which is about to call queryDuckDB, or with an error, to the caller.
SetupReturned(f) ==
    /\ Made(f, "mkdir")
    /\ ~Made(f, "ReadDir")
    /\ f.pc \in {"readDir", "done"}

UploadsOf(f) == IF Succeeded(f, "Upload") THEN 1 ELSE 0

----------------------------------------------------------------------------
(* Claims *)

\* C1: in every run of QueryJSON the steps are made in the fixed order
\* connect, ensure engine, discover, rewrite, start, write and close, wait,
\* none skipped and no call repeated; a failed step is the last one made, the
\* call has then returned, and its result is that step's error.
C1_FixedOrderFailFast ==
    \A r \in Requests :
        LET f == req[r]
            n == Len(f.log)
        IN  /\ n > 0 => StepOf(f.log[1].call) = 1
            /\ \A i \in 1..(n - 1) :
                 /\ RankOf(f.log[i].call) < RankOf(f.log[i + 1].call)
                 /\ StepOf(f.log[i + 1].call) <= StepOf(f.log[i].call) + 1
                 /\ ~StepFailure(f.log[i])
            /\ (n > 0 /\ StepFailure(Last(f.log))) =>
                 /\ f.pc = "done"
                 /\ IF Last(f.log).call = "Wait"
                    THEN f.err \in {"ExitError", "ExitMissingError"}
                    ELSE f.err = Last(f.log).call
            /\ f.pc = "done" =>
                 /\ n > 0
                 /\ StepFailure(Last(f.log)) \/ Last(f.log).call = "Wait"
                 /\ ~StepFailure(Last(f.log)) => f.err = "nil"

C1_Witness ==
    \E r \in Requests :
        /\ req[r].pc = "done"
        /\ req[r].err = "Start"
        /\ Len(req[r].log) >= 8

\* C2: when QueryJSON has returned, on whatever path, the SSH connection,
\* every sftp handle and the command session it opened are released.
C2_AllReleased ==
    \A r \in Requests :
        req[r].pc = "done" =>
            /\ req[r].client # "open"
            /\ req[r].sftp = 0
            /\ req[r].se # "open"

\* C3: the relations the rewritten script declares are exactly the entries
\* of the listing read by this query that are directories: one relation per
\* directory, none for any other entry, none from anywhere else.
C3_RelationsAreDirectories ==
    \A r \in Requests :
        req[r].pc \in Rewritten =>
            LET declared == DeclaredRelations(req[r].sql)
                dirs == {req[r].files[i].name :
                           i \in {j \in 1..Len(req[r].files) : req[r].files[j].isDir}}
            IN  /\ Range(declared) = dirs
                /\ Len(declared) = Cardinality(dirs)

C3_Witness ==
    \E r \in Requests :
        /\ req[r].pc \in Rewritten
        /\ Len(req[r].files) = 2
        /\ req[r].files[1].isDir
        /\ ~req[r].files[2].isDir

C5_SingleDeclaration ==
    \A r \in Requests :
        (req[r].pc \in Rewritten /\ req[r].tables # <<>>) =>
            LET sql == req[r].sql
                at == {i \in 1..Len(sql) : DeclarationAt(sql, i)}
            IN  /\ Cardinality(Positions(sql, "\nWITH ")) = 1
                /\ \A i \in at :
                     IF i = Min(at) THEN sql[i - 1] = "\nWITH "
                     ELSE sql[i - 1] = ","

\* C6: the relations appear in the script in the order of the directories
\* in the listing, and the script ends with SELECT * FROM ( sanitized query ),
\* which is the end of its final statement when the sanitized query holds
\* no terminator.
C6_ListingOrderAndFinalSelect ==
    \A r \in Requests :
        req[r].pc \in Rewritten =>
            LET select == <<" SELECT * FROM (">> \o req[r].sanitized \o <<") ">>
            IN  /\ DeclaredRelations(req[r].sql) = DirectoriesOf(req[r].files)
                /\ IsSuffix(select, req[r].sql)
                /\ ";" \notin Range(req[r].sanitized) =>
                      IsSuffix(select, FinalStatement(req[r].sql))

C6_Witness ==
    \E r \in Requests :
        /\ req[r].pc \in Rewritten
        /\ req[r].files = << [name |-> "users", isDir |-> TRUE],
                             [name |-> "events", isDir |-> TRUE] >>
        /\ req[r].query = <<"SELECT 1">>
        /\ DeclaredRelations(req[r].sql) = <<"users", "events">>

\* C7: a listing without directories is no error: the script is the two
\* setup statements followed by SELECT * FROM ( query ) alone, with no
\* relation, no declaration and no separator, and the next thing the
\* executor does is to open the command session for the engine, from which
\* it returns early only if that fails.
C7_NoDirectories ==
    [][ \A r \in Requests :
          LET f == req[r]
              g == req'[r]
              nodirs(h) == \A i \in 1..Len(h.files) : ~h.files[i].isDir
          IN  /\ (g.pc \in Rewritten /\ nodirs(g)) =>
                   /\ Succeeded(g, "ReadDir")
                   /\ DeclaredRelations(g.sql) = <<>>
                   /\ "," \notin Range(g.sql)
                   /\ "\nWITH " \notin Range(g.sql)
                   /\ g.sql = <<"INSTALL 'parquet'", ";", " LOAD 'parquet'", ";",
                               " ", " SELECT * FROM (">>
                             \o g.sanitized \o <<") ">>
                   /\ ";" \notin Range(g.sanitized) =>
                        NonBlank(FinalStatement(g.sql)) =
                          <<" SELECT * FROM (">> \o g.sanitized \o <<") ">>
              /\ (f.pc = "readDir" /\ g.pc # "done" /\ nodirs(g)) =>
                   g.pc = "rewrite" /\ g.err = "nil"
              /\ (f.pc = "rewrite" /\ nodirs(f)) => g.pc = "newSession"
              /\ (f.pc = "newSession" /\ g.pc = "done") => Failed(g, "NewSession")
      ]_vars

C7_Witness ==
    \E r \in Requests :
        /\ req[r].pc = "write"
        /\ req[r].proc = "running"
        /\ req[r].files = <<[name |-> "logs", isDir |-> FALSE]>>
        /\ req[r].tables = <<>>

\* C8 as stated: two calls of the provisioner in a row make at most one
\* upload in total, and after a first call that installed, the second
\* call's probe succeeds and it uploads nothing.
C8_AtMostOneUpload ==
    \A r \in Requests :
        (prevSetup.ran /\ SetupReturned(req[r])) =>
            /\ prevSetup.uploads + UploadsOf(req[r]) <= 1
            /\ (prevSetup.installed /\ Made(req[r], "probe")) =>
                 /\ Succeeded(req[r], "probe")
                 /\ UploadsOf(req[r]) = 0

\* C8, amended: two calls in a row make at most one upload in total unless
\* the second call's probe fails after the first call uploaded; after a
\* first call that installed, a second call whose probe succeeds uploads
\* nothing.
C8_AtMostOneUploadIfProbeSucceeds ==
    \A r \in Requests :
        (prevSetup.ran /\ SetupReturned(req[r])) =>
            /\ \/ prevSetup.uploads + UploadsOf(req[r]) <= 1
               \/ prevSetup.uploads = 1 /\ Failed(req[r], "probe")
            /\ (prevSetup.installed /\ Succeeded(req[r], "probe")) =>
                 /\ ~Made(req[r], "Upload")
                 /\ prevSetup.uploads + UploadsOf(req[r]) = 1

C8_Witness ==
    \E r \in Requests :
        /\ prevSetup.installed
        /\ SetupReturned(req[r])
        /\ Succeeded(req[r], "probe")

\* C9: the provisioner uploads exactly when the probe failed and marks the
\* file executable exactly when the upload succeeded; a failed probe always
\* leads to the upload and is never the returned error; a successful probe
\* leads to no upload and no chmod.
C9_InstallIffProbeFails ==
    \A r \in Requests :
        LET f == req[r]
        IN  /\ Made(f, "Upload") => Failed(f, "probe")
            /\ (Failed(f, "probe") /\ f.pc # "upload") => Made(f, "Upload")
            /\ Made(f, "chmod") => Succeeded(f, "Upload")
            /\ (Succeeded(f, "Upload") /\ f.pc # "chmod") => Made(f, "chmod")
            /\ Succeeded(f, "probe") => ~Made(f, "Upload") /\ ~Made(f, "chmod")
            /\ f.err # "probe"
            /\ ~(f.pc = "done" /\ Last(f.log).call = "probe")

C9_Witness ==
    \E r \in Requests :
        /\ req[r].pc = "readDir"
        /\ Failed(req[r], "probe")
        /\ Succeeded(req[r], "chmod")
        /\ prevSetup.installed

\* C10: when the subprocess has exited with a non-zero status QueryJSON
\* returns an error, whatever the writer has received, and no step of a
\* call ever takes away what the writer has received.
C10_NonZeroExitIsError ==
    [][ \A r \in Requests :
          LET f == req[r]
              g == req'[r]
          IN  /\ (f.pc = "wait" /\ g.pc = "done" /\ f.proc = "exit1") =>
                   /\ g.err # "nil"
                   /\ g.sink = f.sink
                   /\ g.err \in {"ExitError", "ExitMissingError"}
              /\ f.pc \notin {"idle", "done"} => IsPrefix(f.sink, g.sink)
      ]_vars

C10_Witness ==
    \E r \in Requests :
        /\ req[r].pc = "done"
        /\ req[r].proc = "exit1"
        /\ req[r].err = "ExitError"
        /\ Len(req[r].sink) = MaxOut

\* What the remote engine emitted in the call of frame f, in the order it
\* emitted it: chunks 1 to f.nOut.
Emitted(f) == [i \in 1..f.nOut |-> i]

\* The call of frame f ended because the connection was lost while
\* QueryJSON waited for the subprocess.
ConnectionDropped(f) ==
    /\ f.pc = "done"
    /\ f.log # <<>>
    /\ Last(f.log).call = "Wait"
    /\ f.err = "ExitMissingError"

\* C11: when the connection drops after some output has reached the
\* writer, QueryJSON returns an error and the writer holds exactly a prefix
\* of what the engine emitted: nothing missing in the middle, nothing
\* twice, nothing garbled.
C11_SinkIsPrefixOfEmitted ==
    \A r \in Requests :
        (ConnectionDropped(req[r]) /\ req[r].sink # <<>>) =>
            /\ req[r].err # "nil"
            /\ IsPrefix(req[r].sink, Emitted(req[r]))

\* The phase of the interactive subprocess in the call of frame f.
Phase(f) ==
    CASE f.pc \in {"write", "closePipe"}        -> "Writing"
      [] f.pc = "wait"                          -> "Draining"
      [] f.pc = "done" /\ Succeeded(f, "Start") -> "Done"
      [] OTHER                                  -> "None"

\* Every call named later in the log of f is preceded by a successful call
\* named first.
Preceded(f, first, later) ==
    \A i \in 1..Len(f.log) :
        f.log[i].call = later =>
            \E j \in 1..(i - 1) : f.log[j].call = first /\ f.log[j].ok

C16_ProvisioningFailureIsFatal ==
    \A r \in Requests :
        LET f == req[r]
        IN  /\ \A c \in {"mkdir", "Upload", "chmod"} :
                  Failed(f, c) =>
                    /\ f.pc = "done"
                    /\ f.err = c
                    /\ Last(f.log).call = c
                    /\ ~Made(f, "ReadDir")
                    /\ ~Made(f, "NewSession") /\ ~Made(f, "Start")
                    /\ f.se = "none" /\ f.proc = "none"
            /\ Failed(f, "mkdir") => ~Made(f, "probe") /\ ~Made(f, "Upload")
            /\ Failed(f, "Upload") => ~Made(f, "chmod")

C16_Witness ==
    \E r \in Requests :
        /\ req[r].pc = "done"
        /\ Failed(req[r], "probe")
        /\ Failed(req[r], "Upload")

\* C18 as stated: when the provisioner installs the engine, the binary is
\* uploaded into the configured remote working directory, and that file is
\* the one marked executable, probed and executed.
C18_EngineInWorkingDirectory ==
    \A r \in Requests :
        LET f == req[r]
        IN  /\ Succeeded(f, "Upload") => host.files[DirBin] # "absent"
            /\ Succeeded(f, "chmod") => host.files[DirBin] = "exec"
            /\ (Succeeded(f, "probe") \/ f.proc = "exit0") =>
                  host.files[DirBin] = "exec"

\* C18, amended: the binary is uploaded to the path duckdb of the login
\* directory and nothing is put into the configured working directory;
\* that uploaded file is the one marked executable, probed and executed.
C18_EngineInLoginDirectory ==
    \A r \in Requests :
        LET f == req[r]
        IN  /\ Succeeded(f, "Upload") =>
                  /\ host.files[HomeBin] # "absent"
                  /\ host.files[DirBin] = "absent"
            /\ Succeeded(f, "chmod") => host.files[HomeBin] = "exec"
            /\ (Succeeded(f, "probe") \/ f.proc = "exit0") =>
                  host.files[HomeBin] = "exec"

C18_Witness ==
    \E r \in Requests :
        /\ req[r].pc = "done"
        /\ Succeeded(req[r], "Upload")
        /\ Succeeded(req[r], "chmod")
        /\ req[r].proc = "exit0"

\* C19: the writer receives only what the engine subprocess put on its
\* stdout and stderr.  Until Start has succeeded the writer has received
\* nothing, so a call that fails at any step up to and including Start
\* returns with the writer untouched.
C19_SinkOnlyFromSubprocess ==
    \A r \in Requests :
        LET f == req[r]
        IN  /\ ~Succeeded(f, "Start") => f.sink = <<>> /\ f.nOut = 0
            /\ Len(f.sink) <= f.nOut
            /\ \A i \in 1..Len(f.sink) : f.sink[i] \in 1..f.nOut \cup {Torn}

C19_Witness ==
    \E r \in Requests :
        /\ req[r].pc = "done"
        /\ Failed(req[r], "Start")
        /\ req[r].err = "Start"
        /\ req[r].sink = <<>>

\* The call of frame f is past setupDuckDB, which returned nil, and has not
\* returned yet.
PastSetup(f) ==
    f.pc \in {"readDir", "rewrite", "newSession", "stdinPipe", "start",
              "write", "closePipe", "wait"}

\* C17: two concurrent QueryJSON calls share no state, so each fares as if
\* it ran alone, under every interleaving of their steps, the probe, upload
\* and chmod of the engine binary included.  A call that runs alone has,
\* from the return of its setupDuckDB to its own return, an engine binary
\* at ./duckdb that can run, so that its subprocess can exit with status 0
\* and QueryJSON can return nil.
C17_ConcurrentAsAlone ==
    \A r \in Requests : PastSetup(req[r]) => Runnable(EnginePath)

\* The calls of one kind in the log of the Storage call, in order.
CallsOf(kind) == SelectSeq(storage.calls, LAMBDA e : e.call = kind)

\* Where in the log the calls of one kind are.
CallsAt(kind) ==
    {i \in 1..Len(storage.calls) : storage.calls[i].call = kind}

\* Upload has returned and its first put was answered "no such bucket".
UploadedToMissingBucket ==
    /\ storage.pc = "done"
    /\ CallsOf("PutObject") # <<>>
    /\ CallsOf("PutObject")[1].res = AwsErr("NoSuchBucket")

\* The retry in the log: one create-bucket call, then one second put that
\* read the reader from the offset it had when Upload was called.
RetriedOnceFromStart ==
    /\ Len(CallsOf("PutObject")) = 2
    /\ \A i \in CallsAt("CreateBucket") :
          \E j \in CallsAt("PutObject") : i < j
    /\ CallsOf("PutObject")[1].from = storage.pos0
    /\ CallsOf("PutObject")[2].from = storage.pos0
    /\ CallsOf("PutObject")[2].res = NoErr =>
          /\ storage.err = Nil
          /\ storage.object = [from |-> storage.pos0, to |-> storage.size,
                               present |-> TRUE]

\* C12 as stated: an Upload whose first put fails with "no such bucket"
\* makes exactly one create-bucket call followed by exactly one retry of
\* the put, reading from the offset the reader had when Upload was called,
\* and returns nil when the retry succeeds.
C12_CreateThenRetry ==
    UploadedToMissingBucket =>
        /\ Len(CallsOf("CreateBucket")) = 1
        /\ RetriedOnceFromStart

\* C12, amended: exactly one create-bucket call is made; when it and the
\* seek back to the saved offset succeed it is followed by exactly one
\* retry of the put from the offset the reader had when Upload was called,
\* and Upload returns nil when the retry succeeds; when either fails there
\* is no retry and Upload returns an error.
C12_CreateThenRetryIfCreated ==
    UploadedToMissingBucket =>
        /\ Len(CallsOf("CreateBucket")) = 1
        /\ IF /\ CallsOf("CreateBucket")[1].res = NoErr
              /\ CallsOf("SeekStart") # <<>>
              /\ CallsOf("SeekStart")[1].res = NoErr
           THEN RetriedOnceFromStart
           ELSE /\ Len(CallsOf("PutObject")) = 1
                /\ storage.err # Nil

C12_Witness ==
    /\ UploadedToMissingBucket
    /\ storage.pos0 = 1
    /\ Len(CallsOf("PutObject")) = 2
    /\ CallsOf("SeekStart")[1].from > storage.pos0
    /\ CallsOf("PutObject")[2].res = NoErr
    /\ storage.err = Nil

\* Download has returned; what the backend answered is the last call.
Downloaded ==
    /\ storage.pc = "done"
    /\ storage.calls # <<>>
    /\ Last(storage.calls).call = "Download"

\* C13: Download returns nil on success, an error that wraps
\* filestore.ErrNotFound exactly when the backend answered "no such key",
\* and for every other failure an error that does not wrap it (it wraps
\* the backend's error).
C13_NotFoundIsDistinct ==
    Downloaded =>
        LET res == Last(storage.calls).res
        IN  /\ (storage.err = Nil) <=> (res = NoErr)
            /\ Is(storage.err, ErrNotFound) <=> (res = AwsErr("NoSuchKey"))
            /\ (res # NoErr /\ res # AwsErr("NoSuchKey")) =>
                  /\ ~Is(storage.err, ErrNotFound)
                  /\ Is(storage.err, res)

C13_Witness ==
    /\ Downloaded
    /\ Last(storage.calls).res = AwsErr("NoSuchKey")
    /\ Is(storage.err, ErrNotFound)
    /\ storage.bucket

\* C20: an Upload makes at most two puts and at most one create-bucket
\* call; the bucket is created only after the first put failed with "no
\* such bucket"; any other failure of the first put returns an error with
\* no create-bucket and no second put; a failed create-bucket or a failed
\* seek back returns an error with no second put; a failed second put
\* returns an error and nothing is tried again.
C20_BoundedRetry ==
    LET puts    == CallsOf("PutObject")
        creates == CallsOf("CreateBucket")
        seeks   == CallsOf("SeekStart")
        failed  == storage.pc = "done" /\ storage.err # Nil
    IN  /\ Len(puts) <= 2
        /\ Len(creates) <= 1
        /\ \A i \in CallsAt("CreateBucket") :
              /\ puts # <<>>
              /\ puts[1].res = AwsErr("NoSuchBucket")
              /\ \E j \in CallsAt("PutObject") : j < i
        /\ (puts # <<>> /\ puts[1].res \notin {NoErr, AwsErr("NoSuchBucket")}) =>
              failed /\ creates = <<>> /\ Len(puts) = 1
        /\ (creates # <<>> /\ creates[1].res # NoErr) =>
              failed /\ Len(puts) = 1 /\ seeks = <<>>
        /\ (seeks # <<>> /\ seeks[1].res # NoErr) =>
              failed /\ Len(puts) = 1
        /\ (Len(puts) = 2 /\ puts[2].res # NoErr) =>
              failed /\ Last(storage.calls) = puts[2]

C20_Witness ==
    /\ storage.pc = "done"
    /\ Len(CallsOf("PutObject")) = 2
    /\ CallsOf("PutObject")[2].res = AwsErr("AccessDenied")
    /\ storage.err # Nil

====
